---- MODULE Spec2Model ----
(***************************************************************************)
(* Model of the wdio Launcher: the capability schedule, the dispatch loops *)
(* runTestcases / runSpecs, the worker exit handler, the SIGINT handler,   *)
(* the two-phase run() sequence, and the result aggregator: messageHandler,*)
(* mergeManualTestcaseResults and evaluateValidations.                     *)
(***************************************************************************)
EXTENDS Integers, Sequences, FiniteSets, TLC

\* ------------------------------------------------------------------ bounds
NumCaps == 2        \* number of capabilities in the config
NumServices == 2    \* number of services with launcher hooks
MaxWork == 3        \* total number of testcase and spec files over all capabilities
MaxGlobal == 2      \* largest config.maxInstances tried
MaxPerCap == 2      \* largest per-capability instance limit tried
MaxBail == 2        \* largest config.bail tried (0 = bail disabled)
MaxSigint == 2      \* number of SIGINTs delivered in one run

ExitCodes == {0, 1}               \* exit codes of a worker process
SortEngines == {"insertion", "timsort"}  \* Array.prototype.sort of the runtime

VARIABLES
    config,                 \* configParser.getConfig() / getCapabilities()
    hooks,                  \* what config.onPrepare / onComplete and the services' hooks do
    sortEngine,             \* which Array.prototype.sort the runtime has
    pc,                     \* position of run()
    schedule,               \* this.schedule
    rid,                    \* this.rid
    processes,              \* live child processes of this.processes
    processesStarted,       \* this.processesStarted
    exitCode,               \* this.exitCode
    runnerFailed,           \* this.runnerFailed
    hasTriggeredExitRoutine,
    hasStartedAnyProcess,
    finishedTests,
    endHandlerRunFunc,      \* "runTestcases" or "runSpecs"
    runExitCode,            \* the local exitCode of run() (value of the first promise)
    runResult,              \* the value run() resolved with, -1 while it has not
    specsExitCode,          \* the value of the second promise, which run() drops
    sigints,                \* history: where run() was at each SIGINT received
    picks,                  \* history: the picks of the last dispatch loop call
    dispatched,             \* history: per schedule entry, the workers forked from it
    endEvents,              \* history: the phase of each 'end' event handed to the reporters
    invoked,                \* history: per hook name, the services whose hook was invoked
    manualResults,          \* the manual testcases configParser.getManualResults() names
    validationResults,      \* this.validationResults
    validationStates,       \* this.validationStates
    stepErrors,             \* this.stepErrors
    stepStates,             \* this.stepStates
    stackStore,             \* this.stackStore / stackStoreLocks / waitUntilErrors per cid
    uncaught,               \* an exception has escaped messageHandler
    evaluation,             \* history: the last evaluateValidations call and its outcome
    validated,              \* history: the validate events per (group, story, criteria) named
    classified,             \* history: the statuses returned since the record last changed
    handled,                \* history: number of interpreted worker events handled
    reported,               \* history: the last message handled and the handleEvent calls made for it
    sender,                 \* history: the worker that sent the last interpreted event
    openSteps,              \* history: per worker, for each step it has open, whether a
                            \*          descendant of that step ended 'failed'
    solo,                   \* history: per worker, the aggregation its own events alone lead to
    stackLog                \* history: per worker, the runner:currentStack and
                            \*          runner:aftercommand messages it sent since its last
                            \*          step:start or test:start

\* the state of the result aggregator
aggVars == <<manualResults, validationResults, validationStates, stepErrors, stepStates,
             stackStore, uncaught, evaluation, validated, classified, handled, reported,
             sender, openSteps, solo, stackLog>>

vars == <<config, hooks, sortEngine, pc, schedule, rid, processes, processesStarted,
          exitCode, runnerFailed, hasTriggeredExitRoutine, hasStartedAnyProcess,
          finishedTests, endHandlerRunFunc, runExitCode, runResult, specsExitCode,
          sigints, picks, dispatched, endEvents, invoked, aggVars>>

\* ------------------------------------------------------------ configuration
RECURSIVE SumSeq(_)
SumSeq(s) == IF s = <<>> THEN 0 ELSE Head(s) + SumSeq(Tail(s))

\* a sequence of n file names
Files(n) == [i \in 1..n |-> i]

\* one capability: maxInstances 0 stands for "not set"
Capabilities ==
    [maxInstances : 0..(MaxPerCap - 1), testcases : {Files(n) : n \in 0..MaxWork},
     specs : {Files(n) : n \in 0..MaxWork}]

Configs ==
    { c \in [maxInstances : 1..MaxGlobal, maxInstancesPerCapability : {MaxPerCap},
             bail : 0..MaxBail, caps : [1..NumCaps -> Capabilities]] :
        SumSeq([i \in 1..NumCaps |-> Len(c.caps[i].testcases) + Len(c.caps[i].specs)]) <= MaxWork }

\* capabilities.maxInstances || config.maxInstancesPerCapability
instanceLimit(capabilities) ==
    IF capabilities.maxInstances # 0 THEN capabilities.maxInstances
    ELSE config.maxInstancesPerCapability

\* ---------------------------------------------------------------- schedule
testcaseSchedule ==
    [i \in DOMAIN config.caps |->
        [cid |-> i - 1, testcases |-> config.caps[i].testcases,
         availableInstances |-> instanceLimit(config.caps[i]), runningInstances |-> 0]]

specSchedule ==
    [i \in DOMAIN config.caps |->
        [cid |-> i - 1, specs |-> config.caps[i].specs,
         availableInstances |-> instanceLimit(config.caps[i]), runningInstances |-> 0]]

getNumberOfRunningInstances(sch) ==
    SumSeq([i \in DOMAIN sch |-> sch[i].runningInstances])

getNumberOfTestcasesLeft(sch) ==
    SumSeq([i \in DOMAIN sch |-> Len(sch[i].testcases)])

getNumberOfSpecsLeft(sch) ==
    SumSeq([i \in DOMAIN sch |-> Len(sch[i].specs)])

\* -------------------------------------------------------------- runner ids
\* strings are sequences of characters
Digits == <<"0", "1", "2", "3", "4", "5", "6", "7", "8", "9">>

\* `${n}` of a non-negative integer
RECURSIVE toString(_)
toString(n) ==
    IF n < 10 THEN <<Digits[n + 1]>>
    ELSE toString(n \div 10) \o <<Digits[(n % 10) + 1]>>

isDigit(ch) == \E d \in DOMAIN Digits : Digits[d] = ch

digitValue(ch) == (CHOOSE d \in DOMAIN Digits : Digits[d] = ch) - 1

\* length of the longest prefix of s without the character ch
RECURSIVE prefixBefore(_, _)
prefixBefore(s, ch) ==
    IF s = <<>> \/ Head(s) = ch THEN 0 ELSE 1 + prefixBefore(Tail(s), ch)

\* s.split(sep): the pieces of s between the separators
RECURSIVE split(_, _)
split(s, sep) ==
    LET n == prefixBefore(s, sep)
    IN IF n = Len(s) THEN <<s>>
       ELSE <<SubSeq(s, 1, n)>> \o split(SubSeq(s, n + 2, Len(s)), sep)

\* parseInt(s, 10): the number written by the leading digits of s, -1 for NaN
RECURSIVE parseDigits(_, _)
parseDigits(s, acc) ==
    IF s = <<>> \/ ~isDigit(Head(s)) THEN acc
    ELSE parseDigits(Tail(s), 10 * acc + digitValue(Head(s)))

parseInt(s) == IF s = <<>> \/ ~isDigit(Head(s)) THEN -1 ELSE parseDigits(s, 0)

\* getRunnerId with the counter left out of the id
getRunnerIdOfCapability(r, cid) == toString(cid) \o <<"-">> \o toString(0)

\* `${cid}-${this.rid[cid]++}`: the id; startInstance does the increment
getRunnerId(r, cid) == toString(cid) \o <<"-">> \o toString(r[cid])

\* every worker counted to the first group
getCidGroupShared(cid) == <<"0">>

\* cid.split('-')[0]
getCidGroup(cid) == split(cid, "-")[1]

\* ------------------------------------------------------------------- sort
\* the comparator (a, b) => a.runningInstances > b.runningInstances, as the
\* number the engine turns its boolean result into
comparefn(a, b) == IF a.runningInstances > b.runningInstances THEN 1 ELSE 0

Front(s) == SubSeq(s, 1, Len(s) - 1)

\* insertion sort of the older engines: an element moves left past every
\* element tmp with comparefn(tmp, element) > 0
RECURSIVE insertionInsert(_, _)
insertionInsert(sorted, element) ==
    IF sorted = <<>> THEN <<element>>
    ELSE IF comparefn(sorted[Len(sorted)], element) > 0
         THEN Append(insertionInsert(Front(sorted), element), sorted[Len(sorted)])
         ELSE Append(sorted, element)

RECURSIVE insertionSort(_)
insertionSort(s) ==
    IF s = <<>> THEN <<>>
    ELSE insertionInsert(insertionSort(Front(s)), s[Len(s)])

\* binary insertion sort of the newer engines: an element moves left only
\* past elements it compares negative to (comparefn(pivot, x) < 0)
RECURSIVE binaryPosition(_, _, _, _)
binaryPosition(s, pivot, left, right) ==
    IF left >= right THEN left
    ELSE LET mid == left + ((right - left) \div 2)
         IN IF comparefn(pivot, s[mid]) < 0
            THEN binaryPosition(s, pivot, left, mid)
            ELSE binaryPosition(s, pivot, mid + 1, right)

RECURSIVE binaryInsertionSort(_, _)
binaryInsertionSort(s, start) ==
    IF start > Len(s) THEN s
    ELSE LET pos == binaryPosition(s, s[start], 1, start)
             moved == SubSeq(s, 1, pos - 1) \o <<s[start]>> \o SubSeq(s, pos, start - 1)
                      \o SubSeq(s, start + 1, Len(s))
         IN binaryInsertionSort(moved, start + 1)

\* .sort((a, b) => a.runningInstances > b.runningInstances)
sortByRunningInstances(s) ==
    IF sortEngine = "insertion" THEN insertionSort(s) ELSE binaryInsertionSort(s, 2)

\* ------------------------------------------------------- process supervisor
\* The launcher state a dispatch loop reads and writes.
Launch(sch, r, procs, started, log, disp, results) ==
    [schedule |-> sch, rid |-> r, processes |-> procs, processesStarted |-> started,
     picks |-> log, dispatched |-> disp, validationResults |-> results]

\* return this.validationResults['0']: <<>> stands for undefined
getValidationResults(results) ==
    IF <<"0">> \in DOMAIN results THEN <<results[<<"0">>]>> ELSE <<>>

\* the head of the queue, left in the queue
peek(queue) == [item |-> Head(queue), rest |-> queue]

\* queue.shift(): the head of the queue and what is left of it
shift(queue) == [item |-> Head(queue), rest |-> Tail(queue)]

\* startRunnerInstance / startValidatorInstance: take the next runner id of
\* the capability, fork the child and count it
startInstance(st, cid, kind, specs) ==
    [st EXCEPT !.rid = [st.rid EXCEPT ![cid] = @ + 1],
               !.processes = @ \cup {[cid |-> getRunnerId(st.rid, cid), kind |-> kind]},
               !.processesStarted = @ + 1,
               !.dispatched = [@ EXCEPT ![cid] =
                                  Append(@, [cid |-> getRunnerId(st.rid, cid), kind |-> kind,
                                             specs |-> specs,
                                             validationResults |->
                                                 IF kind = "validator"
                                                 THEN getValidationResults(
                                                          st.validationResults)
                                                 ELSE <<>>])]]

\* schedulableCaps[0].availableInstances-- ; schedulableCaps[0].runningInstances++
occupyInstance(sch, cid) ==
    [sch EXCEPT ![cid + 1].availableInstances = @ - 1,
                ![cid + 1].runningInstances = @ + 1]

\* releaseInstance without the runningInstances-- of endHandler
releaseInstanceKeepsRunning(sch, cid) ==
    [sch EXCEPT ![cid + 1].availableInstances = @ + 1]

\* this.schedule[cid].availableInstances++ ; this.schedule[cid].runningInstances--
releaseInstance(sch, cid) ==
    [sch EXCEPT ![cid + 1].availableInstances = @ + 1,
                ![cid + 1].runningInstances = @ - 1]

\* the picks log entry for one iteration of a dispatch loop
Pick(sch, cands) ==
    [schedulable |-> {cands[k].cid : k \in DOMAIN cands},
     running |-> [c \in 0..(Len(sch) - 1) |-> sch[c + 1].runningInstances],
     cid |-> cands[1].cid]

\* --------------------------------------------------------- dispatch loops
\* typeof config.bail !== 'number' || config.bail < 1 || config.bail > this.runnerFailed
bailFilter(failed) == config.bail < 1 \/ config.bail > failed

\* belowMaxInstances with <= for < in the loop condition
belowMaxInstancesInclusive(sch) == getNumberOfRunningInstances(sch) <= config.maxInstances

\* this.getNumberOfRunningInstances() < config.maxInstances
belowMaxInstances(sch) == getNumberOfRunningInstances(sch) < config.maxInstances

\* hasAvailableInstances that keeps the last slot of an entry free
hasSpareInstances(a) == a.availableInstances > 1

\* a.availableInstances > 0
hasAvailableInstances(a) == a.availableInstances > 0

\* bail-out that leaves the pending testcases in place
clearTestcasesKeepsPending(sch) == sch

\* this.schedule.forEach((t) => { t.testcases = [] })
clearTestcases(sch) == [i \in DOMAIN sch |-> [sch[i] EXCEPT !.testcases = <<>>]]

schedulableTestcases(sch, failed) ==
    LET kept == IF bailFilter(failed) THEN sch ELSE <<>>
        free(a) == belowMaxInstances(sch) /\ hasAvailableInstances(a) /\ Len(a.testcases) > 0
    IN sortByRunningInstances(SelectSeq(kept, free))

schedulableSpecs(sch) ==
    LET free(a) == belowMaxInstances(sch) /\ hasAvailableInstances(a) /\ Len(a.specs) > 0
    IN sortByRunningInstances(SelectSeq(sch, free))

\* the while loop of runTestcases
RECURSIVE testcasesLoop(_, _)
testcasesLoop(st, failed) ==
    IF ~belowMaxInstances(st.schedule) THEN st
    ELSE LET sch == IF bailFilter(failed) \/ st.schedule = <<>> THEN st.schedule
                    ELSE clearTestcases(st.schedule)
             schedulableCaps == schedulableTestcases(sch, failed)
         IN IF Len(schedulableCaps) = 0 THEN [st EXCEPT !.schedule = sch]
            ELSE LET cid == schedulableCaps[1].cid
                     specs == shift(sch[cid + 1].testcases)
                     shifted == [sch EXCEPT ![cid + 1].testcases = specs.rest]
                     started == startInstance(st, cid, "runner", <<specs.item>>)
                 IN testcasesLoop(
                        [started EXCEPT !.schedule = occupyInstance(shifted, cid),
                                        !.picks = Append(@, Pick(sch, schedulableCaps))],
                        failed)

\* the while loop of runSpecs
RECURSIVE specsLoop(_)
specsLoop(st) ==
    IF ~belowMaxInstances(st.schedule) THEN st
    ELSE LET schedulableCaps == schedulableSpecs(st.schedule)
         IN IF Len(schedulableCaps) = 0 THEN st
            ELSE LET cid == schedulableCaps[1].cid
                     specs == shift(st.schedule[cid + 1].specs)
                     shifted == [st.schedule EXCEPT ![cid + 1].specs = specs.rest]
                     started == startInstance(st, cid, "validator", <<specs.item>>)
                 IN specsLoop(
                        [started EXCEPT !.schedule = occupyInstance(shifted, cid),
                                        !.picks = Append(@, Pick(st.schedule, schedulableCaps))])

\* this.schedule.map(...).reduce((a, b) => a + b): reduce() of an empty array
\* without an initial value throws a TypeError
reduceOfEmpty(sch) == sch = <<>>

\* runTestcases(): the launcher state it leaves and the boolean it returns,
\* or the TypeError it throws
runTestcases(st, failed, triggered) ==
    IF triggered THEN [st |-> st, drained |-> TRUE, thrown |-> FALSE]
    ELSE LET after == testcasesLoop(st, failed)
         IN [st |-> after,
             drained |-> getNumberOfRunningInstances(after.schedule) = 0
                         /\ getNumberOfTestcasesLeft(after.schedule) = 0,
             thrown |-> getNumberOfRunningInstances(after.schedule) = 0
                        /\ reduceOfEmpty(after.schedule)]

runSpecs(st, triggered) ==
    IF triggered THEN [st |-> st, drained |-> TRUE]
    ELSE LET after == specsLoop(st)
         IN [st |-> after,
             drained |-> getNumberOfRunningInstances(after.schedule) = 0
                         /\ getNumberOfSpecsLeft(after.schedule) = 0]

\* ------------------------------------------------------- result aggregator
Stories == {"S1"}                 \* story ids named by the workers
Criterias == {"C1", "C2"}         \* criteria ids named by the workers
NumMessages == 2    \* number of distinct assertion messages
MaxEvents == 6      \* number of interpreted worker events handled in one run
MaxSteps == 8       \* number of step events handled in one run
MaxDepth == 3       \* depth of the nesting of steps
MaxPairEvents == 5  \* number of events the runners of two groups send in one run
MaxStackEvents == 5 \* number of stack, command and failure events handled in one run

\* the value of specObj[story]: the criteria an assertion validates
CriteriaLists ==
    {<<c>> : c \in Criterias} \cup {<<"C1", "C2">>}

\* assertion.specObj, <<>> when the assertion has none
SpecObjs == UNION {[ss -> CriteriaLists] : ss \in SUBSET Stories}

\* the failed expectation of a matcher
MatcherFailures ==
    [matcherName : {"toBe"}, message : {<<"assertion", 1>>}, specObj : SpecObjs]

\* an error thrown by something else than a matcher
RuntimeErrors ==
    [matcherName : {"undefined"}, message : {<<"assertion", NumMessages>>}, specObj : SpecObjs]

Assertions == MatcherFailures \cup RuntimeErrors

NoAssertion == [matcherName |-> "undefined", message |-> <<>>, specObj |-> <<>>]

\* m.validate of a step:end, NoValidate when the step validates nothing
NoValidate == [storyId |-> "undefined", criteriaId |-> "undefined"]

Validates == [storyId : Stories, criteriaId : Criterias]

\* specObj naming the criterias cs of the story S1
naming(cs) == [s \in {"S1"} |-> cs]

\* the events of a runner (execution phase) the aggregator interprets
RunnerEvents ==
    {[event |-> e, assertion |-> NoAssertion, validate |-> NoValidate] :
        e \in {"test:start", "test:fail"}}
    \cup {[event |-> "step:failed", assertion |-> a, validate |-> NoValidate] :
            a \in {b \in MatcherFailures : b.specObj \in {<<>>, naming(<<"C1">>)}}}
    \cup {[event |-> "step:broken", assertion |-> a, validate |-> NoValidate] :
            a \in {b \in RuntimeErrors :
                      b.specObj \in {naming(<<"C1">>), naming(<<"C1", "C2">>)}}}
    \cup {[event |-> "validate:success", assertion |-> a, validate |-> NoValidate] :
            a \in {b \in MatcherFailures :
                      b.specObj \in {naming(<<"C1">>), naming(<<"C2">>)}}}
    \cup {[event |-> "validate:failure", assertion |-> a, validate |-> NoValidate] :
            a \in {b \in MatcherFailures : b.specObj = naming(<<"C1">>)}
                  \cup {b \in RuntimeErrors : b.specObj = naming(<<"C2">>)}}
    \cup {[event |-> "validate:broken", assertion |-> a, validate |-> NoValidate] :
            a \in {b \in RuntimeErrors : b.specObj = naming(<<"C1">>)}}

\* the events of a validator (validation phase) the aggregator interprets
ValidatorEvents ==
    {[event |-> "step:end", assertion |-> NoAssertion, validate |-> v] :
        v \in Validates \cup {NoValidate}}
    \cup {[event |-> "test:pass", assertion |-> NoAssertion, validate |-> NoValidate]}

\* a manual testcase file: story -> criteria -> result
ManualTestcases == UNION {[ss -> [{"C1"} -> BOOLEAN]] : ss \in (SUBSET Stories) \ {{}}}

\* configParser.getManualResults(): the manual testcase files of the run
ManualResults == {<<>>} \cup {<<f>> : f \in ManualTestcases}

\* the keys of a story's record: { successes, failures, arguments, screenshots }
StoryKeys == {"successes", "failures", "arguments", "screenshots"}

emptyStory == [successes |-> <<>>, failures |-> <<>>]

\* {} as a validation state: no story, no criteria, no assertion failures
emptyValidationState ==
    [storyId |-> "undefined", criteriaId |-> "undefined", assertionFailures |-> <<>>]

\* the aggregation state messageHandler reads and writes
Aggregation(results, states, errors, steps, stacks, thrown, evaluated) ==
    [validationResults |-> results, validationStates |-> states, stepErrors |-> errors,
     stepStates |-> steps, stackStore |-> stacks, uncaught |-> thrown,
     evaluation |-> evaluated, forwarded |-> <<>>, patched |-> <<>>]

\* this.reporters.handleEvent(event, m): the event handed to the reporters with
\* the status, the assertion failures and the error messages m carries
handleEvent(event, status, assertionFailures, err) ==
    [event |-> event, status |-> status, assertionFailures |-> assertionFailures,
     err |-> err]

\* the message is handed on twice
passThroughTwice(m) ==
    <<handleEvent(m.event, "undefined", <<>>, <<>>), handleEvent(m.event, "undefined", <<>>, <<>>)>>

\* this.reporters.handleEvent(m.event, m) of a message nothing was done to
passThrough(m) == <<handleEvent(m.event, "undefined", <<>>, <<>>)>>

NoEvaluation ==
    [event |-> "", group |-> <<>>, storyId |-> "undefined", criteriaId |-> "undefined",
     status |-> "", err |-> <<>>]

\* if (!(group in this.validationResults)) this.validationResults[group] = {}
ensureGroup(results, group) ==
    IF group \in DOMAIN results THEN results ELSE (group :> <<>>) @@ results

\* if (!(key in this.validationResults[group])) this.validationResults[group][key] = {...}
ensureStory(results, group, key) ==
    IF key \in DOMAIN results[group] THEN results
    ELSE [results EXCEPT ![group] = (key :> emptyStory) @@ @]

\* bucket[criteria] after the push of outcome; absent buckets (and, with
\* reset, present ones) start from []
pushOutcome(bucket, criteria, outcome, reset) ==
    IF criteria \in DOMAIN bucket /\ ~reset
    THEN [bucket EXCEPT ![criteria] = Append(@, outcome)]
    ELSE (criteria :> <<outcome>>) @@ bucket

\* if (!(criteria in story.failures)) story.failures[criteria] = []
ensureBucket(bucket, criteria) ==
    IF criteria \in DOMAIN bucket THEN bucket ELSE (criteria :> <<>>) @@ bucket

\* ------------------------------------------------- mergeManualTestcaseResults
\* the {} pushed for a manual success
manualSuccess == [matcherName |-> "undefined", manual |-> TRUE]

\* { message: `Spec ${story}: Then ${criteria} failed manual tests!`, stack: '' }
manualFailure(story, criteria) ==
    [matcherName |-> "undefined", message |-> <<"failed manual tests", story, criteria>>]

\* if (!(criteria in validationResults[group][story])) bucket[criteria] = []
\* bucket[criteria].push(outcome): the test looks the criteria up among the
\* keys of the story's record, not among those of the bucket
resetAndPush(bucket, criteria, outcome) ==
    IF criteria \notin StoryKeys THEN (criteria :> <<outcome>>) @@ bucket
    ELSE [bucket EXCEPT ![criteria] = Append(@, outcome)]

mergeManualCriteria(record, story, criteria, result) ==
    IF result
    THEN [record EXCEPT !.successes = resetAndPush(@, criteria, manualSuccess)]
    ELSE [record EXCEPT !.failures = resetAndPush(@, criteria, manualFailure(story, criteria))]

\* for (const criteria in manualTestcase[story])
RECURSIVE mergeManualStory(_, _, _, _)
mergeManualStory(record, story, manualStory, todo) ==
    IF todo = {} THEN record
    ELSE LET criteria == CHOOSE c \in todo : TRUE
         IN mergeManualStory(mergeManualCriteria(record, story, criteria, manualStory[criteria]),
                             story, manualStory, todo \ {criteria})

\* for (const story in manualTestcase)
RECURSIVE mergeManualTestcase(_, _, _, _)
mergeManualTestcase(results, group, manualTestcase, todo) ==
    IF todo = {} THEN results
    ELSE LET story == CHOOSE s \in todo : TRUE
             created == ensureStory(results, group, story)
             merged == [created EXCEPT ![group][story] =
                           mergeManualStory(@, story, manualTestcase[story],
                                            DOMAIN manualTestcase[story])]
         IN mergeManualTestcase(merged, group, manualTestcase, todo \ {story})

\* for (const filename of manualResults), under the cid '0-0'
RECURSIVE mergeManualTestcaseResults(_, _)
mergeManualTestcaseResults(results, files) ==
    IF files = <<>> THEN results
    ELSE LET group == getCidGroup(<<"0", "-", "0">>)
         IN mergeManualTestcaseResults(
                mergeManualTestcase(ensureGroup(results, group), group, Head(files),
                                    DOMAIN Head(files)),
                Tail(files))

\* ------------------------------------------------------ evaluateValidations
\* 'broken' only if no recorded failure has a matcherName
statusOfAllFailures(failures) ==
    IF \A k \in DOMAIN failures : failures[k].matcherName = "undefined"
    THEN "broken" ELSE "fail"

\* let status = 'fail'; a failure whose matcherName is undefined makes it 'broken'
statusOfFailures(failures) ==
    IF \E k \in DOMAIN failures : failures[k].matcherName = "undefined"
    THEN "broken" ELSE "fail"

\* a criteria nothing is recorded for counts as passed
passedByDefault(storyId, criteriaId) == [status |-> "pass", err |-> <<>>]

\* criteria was not validated at all
notValidated(storyId, criteriaId) ==
    [status |-> "unvalidated", err |-> <<<<"was not validated", storyId, criteriaId>>>>]

\* evaluateValidations looking at the successes before the failures
evaluateValidationsSuccessesFirst(results, group, storyId, criteriaId) ==
    IF group \in DOMAIN results /\ storyId \in DOMAIN results[group]
          /\ criteriaId \in DOMAIN results[group][storyId].successes
    THEN [status |-> "pass", err |-> <<>>]
    ELSE notValidated(storyId, criteriaId)

\* the status returned and the messages joined into m.err.message; the
\* reduce() of an empty failures array throws a TypeError
evaluateValidations(results, group, storyId, criteriaId) ==
    IF group \in DOMAIN results /\ storyId \in DOMAIN results[group]
    THEN LET story == results[group][storyId]
         IN IF criteriaId \in DOMAIN story.failures
            THEN LET failures == story.failures[criteriaId]
                 IN IF failures = <<>> THEN [status |-> "TypeError", err |-> <<>>]
                    ELSE [status |-> statusOfFailures(failures),
                          err |-> [k \in DOMAIN failures |-> failures[k].message]]
            ELSE IF criteriaId \in DOMAIN story.successes
                 THEN [status |-> "pass", err |-> <<>>]
                 ELSE notValidated(storyId, criteriaId)
    ELSE notValidated(storyId, criteriaId)

\* the evaluation a validation-phase message leads to
Evaluated(a, event, group, storyId, criteriaId) ==
    LET r == evaluateValidations(a.validationResults, group, storyId, criteriaId)
    IN [a EXCEPT !.evaluation = [event |-> event, group |-> group, storyId |-> storyId,
                                 criteriaId |-> criteriaId, status |-> r.status,
                                 err |-> r.err],
                 !.uncaught = (r.status = "TypeError")]

\* validationPhase with the evaluated failures taken out of the record
validationPhaseConsuming(a, cid, m) ==
    LET group == getCidGroup(cid)
        v == IF m.event = "step:end" THEN m.validate ELSE a.validationStates[group]
        taken(results) ==
            IF group \in DOMAIN results /\ v.storyId \in DOMAIN results[group]
            THEN [results EXCEPT ![group][v.storyId].failures =
                      [c \in (DOMAIN @) \ {v.criteriaId} |-> @[c]]]
            ELSE results
    IN IF m.event = "step:end" /\ m.validate # NoValidate
       THEN LET states == IF group \in DOMAIN a.validationStates THEN a.validationStates
                          ELSE (group :> emptyValidationState) @@ a.validationStates
                e == Evaluated([a EXCEPT !.validationStates =
                                  [states EXCEPT ![group].storyId = m.validate.storyId,
                                                 ![group].criteriaId = m.validate.criteriaId]],
                               m.event, group, m.validate.storyId, m.validate.criteriaId)
            IN [e EXCEPT !.validationResults = taken(@)]
       ELSE IF m.event = "test:pass"
       THEN IF group \notin DOMAIN a.validationStates THEN [a EXCEPT !.uncaught = TRUE]
            ELSE LET e == Evaluated(a, m.event, group, a.validationStates[group].storyId,
                                    a.validationStates[group].criteriaId)
                 IN [e EXCEPT !.validationResults = taken(@)]
       ELSE a

\* messageHandler with finishedTests set (the validation phase): the switch
\* and then this.reporters.handleEvent(m.event, m)
validationPhase(a, cid, m) ==
    LET group == getCidGroup(cid)
        r == IF m.event = "step:end" /\ m.validate # NoValidate
             THEN LET states == IF group \in DOMAIN a.validationStates THEN a.validationStates
                                ELSE (group :> emptyValidationState) @@ a.validationStates
                  IN Evaluated([a EXCEPT !.validationStates =
                                   [states EXCEPT ![group].storyId = m.validate.storyId,
                                                  ![group].criteriaId = m.validate.criteriaId]],
                               m.event, group, m.validate.storyId, m.validate.criteriaId)
             ELSE IF m.event = "test:pass"
             THEN IF group \notin DOMAIN a.validationStates THEN [a EXCEPT !.uncaught = TRUE]
                  ELSE Evaluated(a, m.event, group, a.validationStates[group].storyId,
                                 a.validationStates[group].criteriaId)
             ELSE a
    IN IF r.uncaught THEN r
       ELSE [r EXCEPT !.forwarded =
                CASE m.event = "step:end" /\ m.validate # NoValidate ->
                        <<handleEvent("step:" \o r.evaluation.status, "passed", <<>>,
                                      r.evaluation.err)>>
                  [] m.event = "step:end" /\ m.validate = NoValidate ->
                        <<handleEvent(m.event, "passed", <<>>, <<>>)>>
                  [] m.event = "test:pass" ->
                        <<handleEvent("test:" \o r.evaluation.status, "undefined", <<>>,
                                      r.evaluation.err)>>
                  [] OTHER -> passThrough(m)]

\* ------------------------------------------------------- execution phase
\* the outcome fillValidationResults pushes for an assertion
failureOf(assertion) == [matcherName |-> assertion.matcherName, message |-> assertion.message]

\* the outcome a validate:success pushes
successOf(assertion) == [matcherName |-> assertion.matcherName, manual |-> FALSE]

\* for (const criteria of assertion.specObj[key]) of fillValidationResults
RECURSIVE fillCriterias(_, _, _)
fillCriterias(record, assertion, criterias) ==
    IF criterias = <<>> THEN record
    ELSE fillCriterias(
             [record EXCEPT !.failures = pushOutcome(@, Head(criterias), failureOf(assertion), FALSE)],
             assertion, Tail(criterias))

\* for (const key of Object.keys(assertion.specObj)) of fillValidationResults
RECURSIVE fillKeys(_, _, _, _)
fillKeys(results, group, assertion, todo) ==
    IF todo = {} THEN results
    ELSE LET key == CHOOSE s \in todo : TRUE
             created == ensureStory(results, group, key)
         IN fillKeys([created EXCEPT ![group][key] =
                         fillCriterias(@, assertion, assertion.specObj[key])],
                     group, assertion, todo \ {key})

fillValidationResults(results, group, assertion) ==
    fillKeys(results, group, assertion, DOMAIN assertion.specObj)

\* handleAssertion, as far as the validation record goes
handleAssertion(results, group, assertion) ==
    IF assertion.specObj # <<>> THEN fillValidationResults(results, group, assertion)
    ELSE results

\* for (const assertion of this.stepErrors[group].failed / .broken)
RECURSIVE handleAssertions(_, _, _)
handleAssertions(results, group, assertions) ==
    IF assertions = <<>> THEN results
    ELSE handleAssertions(handleAssertion(results, group, Head(assertions)), group,
                          Tail(assertions))

\* this.validationStates[group].assertionFailures.push(m.assertion)
pushAssertionFailure(states, group, assertion) ==
    LET created == IF group \in DOMAIN states THEN states
                   ELSE (group :> emptyValidationState) @@ states
    IN [created EXCEPT ![group].assertionFailures = Append(@, assertion)]

\* for (const criteria of m.assertion.specObj[key]) of a validate event
RECURSIVE validateCriterias(_, _, _, _, _)
validateCriterias(a, group, key, m, criterias) ==
    IF criterias = <<>> THEN a
    ELSE LET criteria == Head(criterias)
             next ==
                 IF m.event = "validate:success"
                 THEN [a EXCEPT !.validationResults[group][key].successes =
                          pushOutcome(@, criteria, successOf(m.assertion), FALSE)]
                 ELSE [a EXCEPT !.validationResults[group][key].failures =
                                    ensureBucket(@, criteria),
                                !.validationStates =
                                    pushAssertionFailure(@, group, m.assertion)]
         IN validateCriterias(next, group, key, m, Tail(criterias))

\* for (const key of Object.keys(m.assertion.specObj)) of a validate event
RECURSIVE validateKeys(_, _, _, _)
validateKeys(a, group, m, todo) ==
    IF todo = {} THEN a
    ELSE LET key == CHOOSE s \in todo : TRUE
             created == [a EXCEPT !.validationResults = ensureStory(@, group, key)]
         IN validateKeys(validateCriterias(created, group, key, m, m.assertion.specObj[key]),
                         group, m, todo \ {key})

\* stackStoreLocks[cid] = false; delete stackStore[cid]; delete waitUntilErrors[cid]
noStack == [stack |-> "undefined", lock |-> FALSE, waitUntil |-> "undefined"]

\* the call stacks a worker reports with runner:currentStack, one line each
Snapshots == {"at login (steps.js:1)", "at logout (steps.js:2)"}

\* the lines this.stackFilter names, which are dropped from a patched stack
stackFilter ==
    {"at <anonymous>", "at new Promise (<anonymous>)", "at Promise (<anonymous>)", "Error"}

\* the lines the model knows that contain a key of this.containStackFilter
containStackFilter == {"at run (/node_modules/wdio-sync/index.js:1)"}

\* the lines the model knows that contain 'at testcase ('
atTestcase == {"at testcase (login.tc.js:1)"}

\* getPatchedStack(source, cid): the lines of the patched stack; an assertion
\* without a stack, whose stack the model does not follow, has no line
getPatchedStack(source, stacks, cid) ==
    LET errorType == IF "errorType" \in DOMAIN source THEN source.errorType ELSE "undefined"
        stored == IF cid \in DOMAIN stacks THEN stacks[cid].stack ELSE "undefined"
        combinedStack ==
            IF /\ errorType # "undefined"
               /\ stored # "undefined"
               /\ \A k \in DOMAIN source.stack : source.stack[k] \notin atTestcase
            THEN Append(source.stack, stored) ELSE source.stack
    IN IF "stack" \notin DOMAIN source THEN <<>>
       ELSE SelectSeq(combinedStack,
                      LAMBDA line : line \notin containStackFilter /\ line \notin stackFilter)

\* m.assertion.stack = this.getPatchedStack(m.assertion, m.cid), once for each
\* of the n criteria a validate:failure or validate:broken names
RECURSIVE patchedTimes(_, _, _, _)
patchedTimes(source, stacks, cid, n) ==
    IF n = 0 \/ "stack" \notin DOMAIN source THEN <<>>
    ELSE IF n = 1 THEN getPatchedStack(source, stacks, cid)
    ELSE getPatchedStack([source EXCEPT !.stack = patchedTimes(source, stacks, cid, n - 1)],
                         stacks, cid)

\* runner:currentStack that stores the stack whether or not the store is locked
currentStackUnlocked(stacks, cid, m) ==
    LET s == IF cid \in DOMAIN stacks THEN stacks[cid] ELSE noStack
    IN (cid :> [s EXCEPT !.stack = m.stack,
                         !.waitUntil = IF m.name = "waitUntil" THEN m.stack ELSE @])
       @@ stacks

\* if (m.event === 'runner:currentStack')
currentStack(stacks, cid, m) ==
    LET s == IF cid \in DOMAIN stacks THEN stacks[cid] ELSE noStack
    IN IF s.lock THEN stacks
       ELSE (cid :> [s EXCEPT !.stack = m.stack,
                              !.waitUntil = IF m.name = "waitUntil" THEN m.stack ELSE @])
            @@ stacks

\* if (m.event === 'runner:aftercommand')
aftercommand(stacks, cid, m) ==
    LET s == IF cid \in DOMAIN stacks THEN stacks[cid] ELSE noStack
    IN IF m.err
       THEN (cid :> [s EXCEPT !.lock = TRUE,
                              !.stack = IF m.command = "waitUntil" \/ s.waitUntil # "undefined"
                                        THEN s.waitUntil ELSE @]) @@ stacks
       ELSE IF m.command = "waitUntil" THEN (cid :> [s EXCEPT !.waitUntil = "undefined"]) @@ stacks
       ELSE stacks

\* if (m.event.indexOf('step:') >= 0): the step state of the group is created
\* with stepLevel 0, and at stepLevel 0 levelStatus = []
stepState(steps, group) ==
    LET created == IF group \in DOMAIN steps THEN steps[group]
                   ELSE [stepLevel |-> 0, levelStatus |-> <<>>]
    IN IF created.stepLevel = 0 THEN [created EXCEPT !.levelStatus = <<>>] ELSE created

\* step:start that does not push the status of the new level
stepStartWithoutStatus(step) ==
    [stepLevel |-> step.stepLevel + 1, levelStatus |-> step.levelStatus]

\* if (m.event === 'step:start')
stepStart(step) ==
    LET level == step.stepLevel + 1
    IN [stepLevel |-> level,
        levelStatus |-> IF Len(step.levelStatus) < level
                        THEN Append(step.levelStatus, "passed") ELSE step.levelStatus]

\* if (m.event === 'step:end'): the step state afterwards and m.status
stepEnd(step, pending) ==
    LET levelStatus == step.levelStatus
        inherited == IF Len(levelStatus) > step.stepLevel /\ levelStatus # <<>>
                     THEN levelStatus[Len(levelStatus)] ELSE "passed"
    IN [status |-> IF pending # <<>> THEN "failed" ELSE inherited,
        step |-> [stepLevel |-> step.stepLevel - 1,
                  levelStatus |-> IF pending # <<>> /\ levelStatus # <<>>
                                  THEN [levelStatus EXCEPT ![Len(levelStatus)] = "failed"]
                                  ELSE levelStatus]]

\* messageHandler with finishedTests not set (the execution phase); the
\* configuration does not set reportErrorsInstantly
executionPhase(a, cid, m) ==
    LET group == getCidGroup(cid)
        step == stepState(a.stepStates, group)
    IN CASE m.event = "runner:currentStack" ->
              [a EXCEPT !.stackStore = currentStack(@, cid, m), !.forwarded = passThrough(m)]
         [] m.event = "runner:aftercommand" ->
              [a EXCEPT !.stackStore = aftercommand(@, cid, m), !.forwarded = passThrough(m)]
         [] m.event = "test:start" ->
              [a EXCEPT !.validationStates = (group :> emptyValidationState) @@ @,
                        !.stackStore = (cid :> noStack) @@ @,
                        !.stepErrors = (group :> [failed |-> <<>>, broken |-> <<>>]) @@ @,
                        !.forwarded = passThrough(m)]
         [] m.event = "test:fail" ->
              LET created == ensureGroup(a.validationResults, group)
              IN IF group \notin DOMAIN a.stepErrors
                 THEN [a EXCEPT !.validationResults = created, !.uncaught = TRUE]
                 ELSE LET assertions == a.stepErrors[group].failed
                                            \o a.stepErrors[group].broken
                      IN [a EXCEPT !.validationResults =
                             handleAssertions(
                                 handleAssertions(created, group, a.stepErrors[group].failed),
                                 group, a.stepErrors[group].broken),
                                   !.forwarded =
                             <<handleEvent(IF a.stepErrors[group].broken # <<>>
                                           THEN "test:broken" ELSE m.event,
                                           "undefined", <<>>,
                                           [k \in DOMAIN assertions |->
                                               assertions[k].message])>>]
         [] m.event \in {"step:failed", "step:broken"} ->
              LET b == [a EXCEPT !.stepStates = (group :> step) @@ @]
                  stack == getPatchedStack(m.assertion, a.stackStore, cid)
              IN IF group \notin DOMAIN a.stepErrors
                 THEN [b EXCEPT !.uncaught = TRUE, !.patched = stack]
                 ELSE IF m.event = "step:broken"
                      THEN [b EXCEPT !.stepErrors[group].broken = Append(@, m.assertion),
                                     !.forwarded = passThrough(m), !.patched = stack]
                      ELSE [b EXCEPT !.stepErrors[group].failed = Append(@, m.assertion),
                                     !.forwarded = passThrough(m), !.patched = stack]
         [] m.event = "step:start" ->
              [a EXCEPT !.stepStates = (group :> stepStart(step)) @@ @,
                        !.stackStore = (cid :> noStack) @@ @,
                        !.forwarded = passThrough(m)]
         [] m.event = "step:end" ->
              LET pending == IF group \in DOMAIN a.validationStates
                             THEN a.validationStates[group].assertionFailures ELSE <<>>
                  ended == stepEnd(step, pending)
              IN [a EXCEPT !.stepStates = (group :> ended.step) @@ @,
                           !.validationStates =
                               IF pending # <<>> THEN [@ EXCEPT ![group].assertionFailures = <<>>]
                               ELSE @,
                           !.forwarded = <<handleEvent(m.event, ended.status, pending, <<>>)>>]
         [] m.event \in {"validate:success", "validate:failure", "validate:broken"} ->
              LET named == IF m.event = "validate:success" THEN {}
                           ELSE UNION {{<<key, k>> : k \in DOMAIN m.assertion.specObj[key]} :
                                          key \in DOMAIN m.assertion.specObj}
              IN [validateKeys([a EXCEPT !.validationResults = ensureGroup(@, group)],
                               group, m, DOMAIN m.assertion.specObj)
                     EXCEPT !.patched = patchedTimes(m.assertion, a.stackStore, cid,
                                                     Cardinality(named))]
         [] OTHER -> [a EXCEPT !.forwarded = passThrough(m)]

\* ------------------------------------------------------------------ run()
\* hooks that return without an error
quietHooks ==
    [onPrepare |-> "returns", onComplete |-> "returns",
     serviceOnPrepare |-> [s \in 1..NumServices |-> "returns"],
     serviceOnComplete |-> [s \in 1..NumServices |-> "returns"]]

\* a global hook either returns or throws (or returns a rejected promise); the
\* hook of a service returns, throws synchronously or returns a promise that
\* rejects
Hooks ==
    [onPrepare : {"returns", "throws"}, onComplete : {"returns", "throws"},
     serviceOnPrepare : [1..NumServices -> {"returns", "throws", "rejects"}],
     serviceOnComplete : [1..NumServices -> {"returns", "throws", "rejects"}]]

\* launcher.map((service) => service[hookName](...args)): the services whose
\* hook is invoked; a hook that throws ends the map() with its exception
map(outcomes) ==
    SelectSeq([s \in DOMAIN outcomes |-> s],
              LAMBDA s : \A t \in 1..(s - 1) : outcomes[t] # "throws")

\* await this.runServiceHook(...): the error of a service's hook is caught and logged
runServiceHook(outcomes) == "returns"

\* await config.onPrepare(...) / config.onComplete(...)
awaitHook(outcome) == outcome

Awaiting == {"awaitTestcases", "awaitSpecs"}

\* the event loop hands out worker messages, worker exits and signals while
\* run() awaits a phase promise or the onComplete hooks
Listening == pc \in Awaiting \cup {"completing"}

\* this.resolve(value): settles the promise run() awaits, if it is pending
resolvedPc == 
    IF pc = "awaitTestcases" THEN "resumeAfterTestcases"
    ELSE IF pc = "awaitSpecs" THEN "resumeAfterSpecs"
    ELSE pc

\* the local exitCode of run() takes the value of the first promise only
resolvedExitCode(value) == IF pc = "awaitTestcases" THEN value ELSE runExitCode

\* the value of the second promise
resolvedSpecsExitCode(value) == IF pc = "awaitSpecs" THEN value ELSE specsExitCode

\* no message has been handled yet
NoReport == [event |-> "", validating |-> FALSE, forwarded |-> <<>>, patched |-> <<>>]

\* the state the constructor leaves behind
constructed ==
    /\ pc = "start"
    /\ schedule = <<>>
    /\ rid = [c \in 0..(NumCaps - 1) |-> 0]
    /\ processes = {}
    /\ processesStarted = 0
    /\ exitCode = 0
    /\ runnerFailed = 0
    /\ hasTriggeredExitRoutine = FALSE
    /\ hasStartedAnyProcess = FALSE
    /\ finishedTests = FALSE
    /\ endHandlerRunFunc = "runTestcases"
    /\ runExitCode = -1
    /\ runResult = -1
    /\ specsExitCode = -1
    /\ sigints = <<>>
    /\ picks = <<>>
    /\ dispatched = [c \in 0..(NumCaps - 1) |-> <<>>]
    /\ endEvents = <<>>
    /\ invoked = [onPrepare |-> <<>>, onComplete |-> <<>>]
    /\ validationResults = <<>>
    /\ validationStates = <<>>
    /\ stepErrors = <<>>
    /\ stepStates = <<>>
    /\ stackStore = <<>>
    /\ uncaught = FALSE
    /\ evaluation = NoEvaluation
    /\ validated = {}
    /\ classified = <<>>
    /\ handled = 0
    /\ reported = NoReport
    /\ sender = <<>>
    /\ openSteps = <<>>
    /\ solo = <<>>
    /\ stackLog = <<>>

Init ==
    /\ config \in Configs
    /\ hooks = quietHooks
    /\ sortEngine \in SortEngines
    /\ manualResults = <<>>
    /\ constructed

\* run() up to the first promise: run the onPrepare hooks, build the testcase
\* schedule and call runTestcases()
RunTestcasesPhase ==
    /\ pc = "start"
    /\ IF "throws" \in {awaitHook(hooks.onPrepare), runServiceHook(hooks.serviceOnPrepare)}
       THEN /\ pc' = "rejected"
            /\ UNCHANGED <<schedule, rid, processes, processesStarted, picks, dispatched,
                           runExitCode>>
            /\ invoked' = IF awaitHook(hooks.onPrepare) = "throws" THEN invoked
                          ELSE [invoked EXCEPT !.onPrepare = map(hooks.serviceOnPrepare)]
       ELSE \E r \in {runTestcases(Launch(testcaseSchedule, rid, processes, processesStarted,
                                          <<>>, dispatched, validationResults),
                                   runnerFailed, hasTriggeredExitRoutine)} :
               /\ schedule' = r.st.schedule
               /\ rid' = r.st.rid
               /\ processes' = r.st.processes
               /\ processesStarted' = r.st.processesStarted
               /\ picks' = r.st.picks
               /\ dispatched' = r.st.dispatched
               /\ pc' = IF r.thrown THEN "rejected"
                        ELSE IF r.drained THEN "resumeAfterTestcases" ELSE "awaitTestcases"
               /\ runExitCode' = IF r.drained /\ ~r.thrown THEN 0 ELSE runExitCode
               /\ invoked' = [invoked EXCEPT !.onPrepare = map(hooks.serviceOnPrepare)]
    /\ UNCHANGED <<config, hooks, sortEngine, endEvents, exitCode, runnerFailed, hasTriggeredExitRoutine,
                   hasStartedAnyProcess, finishedTests, endHandlerRunFunc, runResult,
                   specsExitCode, sigints, aggVars>>

\* run() between the two promises: rebuild the schedule from the specs, merge
\* the manual results and call runSpecs()
RunSpecsPhase ==
    /\ pc = "resumeAfterTestcases"
    /\ finishedTests' = TRUE
    /\ endHandlerRunFunc' = "runSpecs"
    /\ validationResults' = mergeManualTestcaseResults(validationResults, manualResults)
    /\ classified' = IF validationResults' # validationResults THEN <<>> ELSE classified
    /\ \E r \in {runSpecs(Launch(specSchedule, rid, processes, processesStarted, <<>>,
                                 dispatched, validationResults'),
                          hasTriggeredExitRoutine)} :
          /\ schedule' = r.st.schedule
          /\ rid' = r.st.rid
          /\ processes' = r.st.processes
          /\ processesStarted' = r.st.processesStarted
          /\ picks' = r.st.picks
          /\ dispatched' = r.st.dispatched
          /\ pc' = IF r.drained THEN "resumeAfterSpecs" ELSE "awaitSpecs"
          /\ specsExitCode' = IF r.drained THEN 0 ELSE specsExitCode
    /\ UNCHANGED <<config, hooks, sortEngine, endEvents, invoked, exitCode, runnerFailed, hasTriggeredExitRoutine,
                   hasStartedAnyProcess, runExitCode, runResult, sigints, manualResults,
                   validationStates, stepErrors, stepStates, stackStore, uncaught,
                   evaluation, validated, handled, reported, sender, openSteps, solo,
                   stackLog>>

\* run() after the second promise: start the onComplete hooks
RunOnComplete ==
    /\ pc = "resumeAfterSpecs"
    /\ pc' = "completing"
    /\ UNCHANGED <<config, hooks, sortEngine, endEvents, invoked, schedule, rid, processes, processesStarted, exitCode,
                   runnerFailed, hasTriggeredExitRoutine, hasStartedAnyProcess, finishedTests,
                   endHandlerRunFunc, runExitCode, runResult, specsExitCode, sigints, picks,
                   dispatched, aggVars>>

\* run() returns its local exitCode once the onComplete hooks are through
RunReturn ==
    /\ pc = "completing"
    /\ IF "throws" \in {runServiceHook(hooks.serviceOnComplete), awaitHook(hooks.onComplete)}
       THEN pc' = "rejected" /\ UNCHANGED runResult
       ELSE pc' = "done" /\ runResult' = runExitCode
    /\ invoked' = [invoked EXCEPT !.onComplete = map(hooks.serviceOnComplete)]
    /\ UNCHANGED <<config, hooks, sortEngine, endEvents, schedule, rid, processes, processesStarted, exitCode,
                   runnerFailed, hasTriggeredExitRoutine, hasStartedAnyProcess, finishedTests,
                   endHandlerRunFunc, runExitCode, specsExitCode, sigints, picks, dispatched,
                   aggVars>>

\* ------------------------------------------------------------- handlers
\* an event the aggregator hands to the reporters as it is
Uninterpreted == [event |-> "runner:start", assertion |-> NoAssertion, validate |-> NoValidate]

\* the validate event m as recorded per (group, story, criteria) it names
validateTargets(group, m) ==
    IF m.event \in {"validate:success", "validate:failure", "validate:broken"}
    THEN UNION {{[group |-> group, storyId |-> s, criteriaId |-> m.assertion.specObj[s][k],
                  event |-> m.event, matcherName |-> m.assertion.matcherName,
                  message |-> m.assertion.message] :
                    k \in DOMAIN m.assertion.specObj[s]} : s \in DOMAIN m.assertion.specObj}
    ELSE {}

\* messageHandler: the live worker p sends the message m
messageHandler(p, m) ==
    /\ Listening
    /\ p \in processes
    /\ hasStartedAnyProcess' = TRUE
    /\ LET a == Aggregation(validationResults, validationStates, stepErrors, stepStates,
                            stackStore, uncaught, evaluation)
           group == getCidGroup(p.cid)
       IN \E r \in {IF finishedTests THEN validationPhase(a, p.cid, m)
                    ELSE executionPhase(a, p.cid, m)} :
          /\ validationResults' = r.validationResults
          /\ validationStates' = r.validationStates
          /\ stepErrors' = r.stepErrors
          /\ stepStates' = r.stepStates
          /\ stackStore' = r.stackStore
          /\ reported' = [event |-> m.event, validating |-> finishedTests,
                          forwarded |-> r.forwarded, patched |-> r.patched]
          /\ uncaught' = r.uncaught
          /\ evaluation' = r.evaluation
          /\ validated' = validated \cup validateTargets(group, m)
          /\ classified' =
                IF r.validationResults # validationResults THEN <<>>
                ELSE IF r.evaluation.status \in {"pass", "fail", "broken", "unvalidated"}
                        /\ finishedTests /\ m.event \in {"step:end", "test:pass"}
                        /\ (m.event = "step:end" => m.validate # NoValidate)
                     THEN (<<r.evaluation.group, r.evaluation.storyId,
                             r.evaluation.criteriaId>> :> r.evaluation.status) @@ classified
                     ELSE classified
    /\ UNCHANGED <<config, hooks, sortEngine, endEvents, invoked, pc, schedule, rid, processes, processesStarted, exitCode,
                   runnerFailed, hasTriggeredExitRoutine, finishedTests, endHandlerRunFunc,
                   runExitCode, runResult, specsExitCode, sigints, picks, dispatched,
                   manualResults>>

\* the exit code of the worker that exited last
lastExitCode(code) == code

\* this.exitCode = this.exitCode || childProcessExitCode
firstExitCode(code) == IF exitCode # 0 THEN exitCode ELSE code

\* endHandler: a live worker exits with childProcessExitCode
endHandler(p, childProcessExitCode) ==
    /\ Listening
    /\ p \in processes
    /\ LET code == firstExitCode(childProcessExitCode)
           failed == runnerFailed + (IF childProcessExitCode # 0 THEN 1 ELSE 0)
           st == Launch(releaseInstance(schedule, parseInt(p.cid)), rid,
                        processes \ {p}, processesStarted, <<>>, dispatched,
                        validationResults)
       IN \E r \in {IF endHandlerRunFunc = "runTestcases"
                     THEN runTestcases(st, failed, hasTriggeredExitRoutine)
                     ELSE runSpecs(st, hasTriggeredExitRoutine)} :
          /\ exitCode' = code
          /\ runnerFailed' = failed
          /\ schedule' = r.st.schedule
          /\ rid' = r.st.rid
          /\ processes' = r.st.processes
          /\ processesStarted' = r.st.processesStarted
          /\ picks' = r.st.picks
          /\ dispatched' = r.st.dispatched
          /\ endEvents' = IF r.drained
                      THEN Append(endEvents, IF finishedTests THEN "specs" ELSE "testcases")
                      ELSE endEvents
          /\ pc' = IF r.drained THEN resolvedPc ELSE pc
          /\ runExitCode' = IF r.drained THEN resolvedExitCode(IF code = 0 THEN 0 ELSE 1)
                            ELSE runExitCode
          /\ specsExitCode' = IF r.drained
                              THEN resolvedSpecsExitCode(IF code = 0 THEN 0 ELSE 1)
                              ELSE specsExitCode
    /\ UNCHANGED <<config, hooks, sortEngine, invoked, hasTriggeredExitRoutine,
                   hasStartedAnyProcess, finishedTests, endHandlerRunFunc, runResult, sigints,
                   aggVars>>

\* exitHandler: SIGINT
exitHandler ==
    /\ Listening
    /\ Len(sigints) < MaxSigint
    /\ sigints' = Append(sigints, pc)
    /\ IF hasTriggeredExitRoutine \/ ~hasStartedAnyProcess
       THEN /\ pc' = resolvedPc
            /\ runExitCode' = resolvedExitCode(1)
            /\ specsExitCode' = resolvedSpecsExitCode(1)
            /\ UNCHANGED hasTriggeredExitRoutine
       ELSE /\ hasTriggeredExitRoutine' = TRUE
            /\ UNCHANGED <<pc, runExitCode, specsExitCode>>
    /\ UNCHANGED <<config, hooks, sortEngine, endEvents, invoked, schedule, rid, processes, processesStarted, exitCode,
                   runnerFailed, hasStartedAnyProcess, finishedTests, endHandlerRunFunc,
                   runResult, picks, dispatched, aggVars>>

\* the steps the worker cid has open after its event m, which the aggregator
\* forwarded with the given status
opened(open, cid, m, status) ==
    LET mine == IF cid \in DOMAIN open THEN open[cid] ELSE <<>>
    IN CASE m.event = "test:start" /\ mine # <<>> -> (cid :> <<>>) @@ open
         [] m.event = "step:start" -> (cid :> Append(mine, FALSE)) @@ open
         [] m.event = "step:end" /\ mine # <<>> ->
              LET failed == status = "failed" \/ mine[Len(mine)]
                  rest == Front(mine)
              IN (cid :> IF rest = <<>> THEN rest
                         ELSE [rest EXCEPT ![Len(rest)] = @ \/ failed]) @@ open
         [] OTHER -> open

\* the worker p sends the event m, which the aggregator interprets
Sends(p, m) ==
    /\ messageHandler(p, m)
    /\ handled' = handled + 1
    /\ sender' = p.cid
    /\ openSteps' = IF finishedTests \/ reported'.forwarded = <<>> THEN openSteps
                    ELSE opened(openSteps, p.cid, m, reported'.forwarded[1].status)

\* what the events of the worker p lead to when the aggregator handles no
\* other worker's events between its first event and its event m
alone(p, m) ==
    LET a == IF p.cid \in DOMAIN solo
             THEN [solo[p.cid] EXCEPT !.forwarded = <<>>, !.patched = <<>>]
             ELSE Aggregation(validationResults, validationStates, stepErrors, stepStates,
                              stackStore, uncaught, evaluation)
    IN (p.cid :> IF finishedTests THEN validationPhase(a, p.cid, m)
                 ELSE executionPhase(a, p.cid, m)) @@ solo

\* the events of the child processes
WorkerMessage ==
    \E p \in processes :
        messageHandler(p, Uninterpreted)
        /\ UNCHANGED <<handled, sender, openSteps, solo, stackLog>>

WorkerExit == \E p \in processes, code \in ExitCodes : endHandler(p, code)

Next ==
    \/ RunTestcasesPhase
    \/ RunSpecsPhase
    \/ RunOnComplete
    \/ RunReturn
    \/ WorkerMessage
    \/ WorkerExit
    \/ exitHandler

Spec == Init /\ [][Next]_vars

\* a run no SIGINT interrupts
NextUninterrupted ==
    \/ RunTestcasesPhase
    \/ RunSpecsPhase
    \/ RunOnComplete
    \/ RunReturn
    \/ WorkerMessage
    \/ WorkerExit

\* the child processes that can be alive in a run
Workers ==
    {[cid |-> toString(c) \o <<"-">> \o toString(k), kind |-> kind] :
        c \in 0..(NumCaps - 1), k \in 0..MaxWork, kind \in {"runner", "validator"}}

\* run() goes on from where it stands without waiting for an event
RunContinues ==
    /\ pc \in {"start", "resumeAfterTestcases", "resumeAfterSpecs", "completing"}
    /\ pc' \in {"awaitTestcases", "resumeAfterTestcases", "awaitSpecs", "resumeAfterSpecs",
               "completing", "done"} \ {pc}

\* a live worker exits while the launcher listens
SomeWorkerExits ==
    /\ Listening
    /\ \E p \in processes : processes' \in {q \in SUBSET Workers : p \notin q}

\* a run in which the workers send the events the aggregator interprets: one
\* group runs a testcase and then a spec, the other one has no work
AggConfig ==
    [maxInstances |-> MaxGlobal, maxInstancesPerCapability |-> MaxPerCap, bail |-> 0,
     caps |-> <<[maxInstances |-> 0, testcases |-> Files(1), specs |-> Files(1)],
                [maxInstances |-> 0, testcases |-> Files(0), specs |-> Files(0)]>>]

AggInit ==
    /\ config = AggConfig
    /\ hooks = quietHooks
    /\ sortEngine = "insertion"
    /\ manualResults \in ManualResults
    /\ constructed

\* a live worker sends one of the events of its phase
WorkerEvent ==
    /\ handled < MaxEvents
    /\ \E p \in processes :
          \E m \in (IF p.kind = "runner" THEN RunnerEvents ELSE ValidatorEvents) :
              Sends(p, m) /\ UNCHANGED <<solo, stackLog>>

\* an exception that escapes a handler ends the launcher process
AggNext ==
    /\ ~uncaught
    /\ \/ RunTestcasesPhase
       \/ RunSpecsPhase
       \/ RunOnComplete
       \/ RunReturn
       \/ WorkerExit
       \/ WorkerEvent

AggSpec == AggInit /\ [][AggNext]_vars

\* a run in which the runner sends the events of nested steps: steps that
\* start and end, a validation failing inside a step, the stack of a command
\* and a command that failed
StepEvents ==
    {[event |-> e, assertion |-> NoAssertion, validate |-> NoValidate] :
        e \in {"test:start", "step:start", "step:end"}}
    \cup {[event |-> "validate:failure", assertion |-> a, validate |-> NoValidate] :
            a \in {b \in MatcherFailures : b.specObj = naming(<<"C1">>)}}
    \cup {[event |-> "runner:currentStack", stack |-> "at step", name |-> "click"],
          [event |-> "runner:aftercommand", err |-> TRUE, command |-> "click"]}

\* the runner sends an event; it ends only steps it has started
StepEvent ==
    /\ handled < MaxSteps
    /\ \E p \in processes :
          \E m \in StepEvents :
              /\ p.kind = "runner"
              /\ LET open == IF p.cid \in DOMAIN openSteps THEN openSteps[p.cid] ELSE <<>>
                 IN /\ m.event = "step:start" => Len(open) < MaxDepth
                    /\ m.event = "step:end" => open # <<>>
              /\ Sends(p, m)
              /\ UNCHANGED <<solo, stackLog>>

StepNext ==
    /\ ~uncaught
    /\ \/ RunTestcasesPhase
       \/ RunSpecsPhase
       \/ RunOnComplete
       \/ RunReturn
       \/ WorkerExit
       \/ StepEvent

StepSpec == AggInit /\ [][StepNext]_vars

\* a run in which two runners of the first group and one of the second send
\* the events of failing tests
PairConfig ==
    [maxInstances |-> MaxGlobal, maxInstancesPerCapability |-> MaxPerCap, bail |-> 0,
     caps |-> <<[maxInstances |-> 0, testcases |-> Files(2), specs |-> Files(0)],
                [maxInstances |-> 0, testcases |-> Files(1), specs |-> Files(0)]>>]

PairInit ==
    /\ config = PairConfig
    /\ hooks = quietHooks
    /\ sortEngine = "insertion"
    /\ manualResults = <<>>
    /\ constructed

\* a test starts, a step of it fails (on a matcher's expectation for a
\* criteria, or on an error that comes from no matcher) and the test fails
PairEvents ==
    {[event |-> e, assertion |-> NoAssertion, validate |-> NoValidate] :
        e \in {"test:start", "test:fail"}}
    \cup {[event |-> "step:failed", assertion |-> a, validate |-> NoValidate] :
            a \in {b \in MatcherFailures : b.specObj = naming(<<"C1">>)}
                  \cup {b \in RuntimeErrors : b.specObj = <<>>}}

\* a live runner sends one of these events
PairEvent ==
    /\ handled < MaxPairEvents
    /\ \E p \in processes :
          \E m \in PairEvents :
              /\ Sends(p, m)
              /\ solo' = alone(p, m)
              /\ UNCHANGED stackLog

PairNext ==
    /\ ~uncaught
    /\ \/ RunTestcasesPhase
       \/ RunSpecsPhase
       \/ RunOnComplete
       \/ RunReturn
       \/ WorkerExit
       \/ PairEvent

PairSpec == PairInit /\ [][PairNext]_vars

\* a run in which the runners of two groups send the events of failing
\* tests and each group then runs a spec
RecordConfig ==
    [maxInstances |-> MaxGlobal, maxInstancesPerCapability |-> MaxPerCap, bail |-> 0,
     caps |-> <<[maxInstances |-> 0, testcases |-> Files(1), specs |-> Files(1)],
                [maxInstances |-> 0, testcases |-> Files(1), specs |-> Files(1)]>>]

RecordInit ==
    /\ config = RecordConfig
    /\ hooks = quietHooks
    /\ sortEngine = "insertion"
    /\ manualResults \in ManualResults
    /\ constructed

RecordSpec == RecordInit /\ [][PairNext]_vars

\* an assertion that failed in a step, with the stack of the error
StackFailures ==
    [matcherName : {"toBe"}, message : {<<"assertion", 1>>}, specObj : {naming(<<"C1">>)},
     errorType : {"AssertionError"},
     stack : {<<"Error", "at expect (steps.js:3)">>, <<"at testcase (login.tc.js:1)">>}]

\* a run in which the runner reports the stacks of its commands, commands
\* that fail and commands that succeed, and failures of steps and validations
StackEvents ==
    {[event |-> e, assertion |-> NoAssertion, validate |-> NoValidate] :
        e \in {"test:start", "step:start"}}
    \cup [event : {"runner:currentStack"}, stack : Snapshots, name : {"click", "waitUntil"}]
    \cup [event : {"runner:aftercommand"}, err : BOOLEAN, command : {"click", "waitUntil"}]
    \cup {[event |-> e, assertion |-> a, validate |-> NoValidate] :
            e \in {"step:failed", "validate:failure"}, a \in StackFailures}

\* the messages of stackLog after the worker has sent m
logged(log, cid, m) ==
    LET mine == IF cid \in DOMAIN log THEN log[cid] ELSE <<>>
    IN IF m.event \in {"test:start", "step:start"} THEN (cid :> <<>>) @@ log
       ELSE IF m.event \in {"runner:currentStack", "runner:aftercommand"}
            THEN (cid :> Append(mine, m)) @@ log
       ELSE log

\* the runner sends one of these events
StackEvent ==
    /\ handled < MaxStackEvents
    /\ \E p \in processes :
          \E m \in StackEvents :
              /\ p.kind = "runner"
              /\ Sends(p, m)
              /\ stackLog' = logged(stackLog, p.cid, m)
              /\ UNCHANGED solo

StackNext ==
    /\ ~uncaught
    /\ \/ RunTestcasesPhase
       \/ RunSpecsPhase
       \/ RunOnComplete
       \/ RunReturn
       \/ WorkerExit
       \/ StackEvent

StackInit ==
    /\ config = AggConfig
    /\ hooks = quietHooks
    /\ sortEngine = "insertion"
    /\ manualResults = <<>>
    /\ constructed

StackSpec == StackInit /\ [][StackNext]_vars

\* a run with hooks that may fail
HookInit ==
    /\ config = AggConfig
    /\ hooks \in Hooks
    /\ sortEngine \in SortEngines
    /\ manualResults = <<>>
    /\ constructed

HookSpec == HookInit /\ [][NextUninterrupted]_vars

\* run() goes on once the promise it awaits is settled, and every forked
\* worker exits in the end
FairSpec ==
    /\ Init
    /\ [][NextUninterrupted]_vars
    /\ WF_pc(RunContinues)
    /\ WF_processes(SomeWorkerExits)

\* ------------------------------------------------------------- properties
drainedTestcases ==
    getNumberOfRunningInstances(schedule) = 0 /\ getNumberOfTestcasesLeft(schedule) = 0

drainedSpecs ==
    getNumberOfRunningInstances(schedule) = 0 /\ getNumberOfSpecsLeft(schedule) = 0

\* C1: in every reachable state the runningInstances of all schedule entries
\* sum to at most config.maxInstances and each entry's runningInstances is at
\* most the instance limit of its capability.
C1_ConcurrencyBound ==
    /\ getNumberOfRunningInstances(schedule) <= config.maxInstances
    /\ \A i \in DOMAIN schedule :
           schedule[i].runningInstances <= instanceLimit(config.caps[i])

\* the global limit is what holds a dispatch back: an entry has work and a
\* free instance, after a worker has already exited and been replaced
C1_Witness ==
    /\ pc = "awaitTestcases"
    /\ getNumberOfRunningInstances(schedule) = config.maxInstances
    /\ processesStarted > Cardinality(processes)
    /\ \E i \in DOMAIN schedule :
           schedule[i].availableInstances > 0 /\ Len(schedule[i].testcases) > 0

\* C2: for every schedule entry availableInstances + runningInstances is the
\* instance limit of its capability, after every dispatch and every exit.
C2_SlotConservation ==
    \A i \in DOMAIN schedule :
        schedule[i].availableInstances + schedule[i].runningInstances
            = instanceLimit(config.caps[i])

\* a worker has exited and another one of the same phase is still running
C2_Witness ==
    /\ pc \in Awaiting
    /\ processesStarted > Cardinality(processes)
    /\ \E i \in DOMAIN schedule : schedule[i].runningInstances > 0

\* C3: a phase's promise is resolved if and only if every pending queue is
\* empty and every runningInstances is 0.
C3_ResolvedIffDrained ==
    /\ pc = "resumeAfterTestcases" => drainedTestcases
    /\ pc = "resumeAfterSpecs" => drainedSpecs
    /\ pc = "awaitTestcases" => ~drainedTestcases
    /\ pc = "awaitSpecs" => ~drainedSpecs

\* C4: without interrupts run() resolves with 0 if and only if no worker of
\* either phase exited non-zero, and with 1 otherwise.
C4_ZeroIffNoWorkerFailed ==
    (pc = "done" /\ sigints = <<>>) =>
        /\ runResult \in {0, 1}
        /\ runResult = 0 <=> runnerFailed = 0

\* C5: a run that received a SIGINT in either phase, once or twice, resolves
\* with exit code 1.
C5_InterruptedRunResolvesOne ==
    (pc = "done" /\ \E k \in DOMAIN sigints : sigints[k] \in Awaiting) => runResult = 1

\* C6: after the first SIGINT no new worker process is dispatched.
C6_NoDispatchAfterSigint ==
    [][Len(sigints) >= 1 => processesStarted' = processesStarted]_vars

\* C7: after a single SIGINT taken while workers are live, the phase is
\* reported drained, and its promise resolved, only once no worker is running.
C7_ResolvedOnlyWhenIdle ==
    (Len(sigints) = 1 /\ hasTriggeredExitRoutine
        /\ pc \in {"resumeAfterTestcases", "resumeAfterSpecs"}) => processes = {}

\* C8: a second SIGINT resolves the run without waiting for a worker exit:
\* after it run() no longer awaits a phase promise.
C8_SecondSigintResolves ==
    Len(sigints) >= 2 => pc \notin Awaiting

\* C9: once the number of workers that exited non-zero exceeds config.bail,
\* the dispatch loop of the running phase starts no further worker.
C9_NoDispatchAfterBail ==
    [][(config.bail >= 1 /\ runnerFailed' > config.bail)
           => processesStarted' = processesStarted]_vars

\* C10: every pick of the dispatch loop is a schedulable entry with the least
\* runningInstances, and the first registered one among those.
C10_PicksLeastRunningFirst ==
    \A k \in DOMAIN picks :
        \A c \in picks[k].schedulable :
            \/ picks[k].running[picks[k].cid] < picks[k].running[c]
            \/ picks[k].running[picks[k].cid] = picks[k].running[c] /\ picks[k].cid <= c

\* C11: no validator is dispatched before the testcase phase has drained (no
\* testcase pending, no runner alive), and no runner is alive while a
\* validator runs.
C11_PhasesDoNotOverlap ==
    /\ pc = "resumeAfterTestcases" => drainedTestcases
    /\ \A p, q \in processes : ~(p.kind = "runner" /\ q.kind = "validator")

\* C12: when no SIGINT arrives and every forked worker exits, the testcase
\* phase and then the spec phase resolve, whether or not the run bails out.
C12_PhasesResolve ==
    /\ <>(pc = "resumeAfterTestcases")
    /\ <>(pc = "resumeAfterSpecs")

\* both phases have resolved in a run that bailed out of its testcase phase
\* with work still pending, and whose spec phase had to wait for a worker
C12_Witness ==
    /\ pc = "resumeAfterSpecs"
    /\ config.bail >= 1
    /\ runnerFailed >= config.bail
    /\ \E i \in DOMAIN config.caps :
           Len(dispatched[i - 1]) < Len(config.caps[i].testcases) + Len(config.caps[i].specs)
    /\ \E i \in DOMAIN config.caps :
           \E k \in DOMAIN dispatched[i - 1] : dispatched[i - 1][k].kind = "validator"

\* Scenario A: one group with instance limit 1 holds the two work items of
\* the phase, and they are the only work of the run so far
ScenarioATestcases ==
    \E i \in DOMAIN config.caps :
        /\ instanceLimit(config.caps[i]) = 1
        /\ Len(config.caps[i].testcases) = 2
        /\ \A j \in DOMAIN config.caps \ {i} : Len(config.caps[j].testcases) = 0

ScenarioASpecs ==
    \E i \in DOMAIN config.caps :
        /\ instanceLimit(config.caps[i]) = 1
        /\ Len(config.caps[i].specs) = 2
        /\ \A j \in DOMAIN config.caps \ {i} : Len(config.caps[j].specs) = 0
        /\ \A j \in DOMAIN config.caps : Len(config.caps[j].testcases) = 0

ItemsPerGroup == 3

ScenarioBConfigs ==
    { c \in [maxInstances : 1..MaxGlobal, maxInstancesPerCapability : {MaxPerCap},
             bail : {1}, caps : [1..NumCaps -> Capabilities]] :
        \/ \A i \in 1..NumCaps : /\ Len(c.caps[i].testcases) = ItemsPerGroup
                                 /\ Len(c.caps[i].specs) = 0
        \/ \A i \in 1..NumCaps : /\ Len(c.caps[i].testcases) = 0
                                 /\ Len(c.caps[i].specs) = ItemsPerGroup }

ScenarioBInit ==
    /\ config \in ScenarioBConfigs
    /\ hooks = quietHooks
    /\ sortEngine \in SortEngines
    /\ manualResults = <<>>
    /\ constructed

ScenarioBSpec == ScenarioBInit /\ [][NextUninterrupted]_vars

\* the exit handler runs for the first worker of group 0, with a non-zero code
FirstWorkerOfGroup0Fails ==
    /\ Listening
    /\ \E p \in processes :
           /\ p.cid = toString(0) \o <<"-">> \o toString(0)
           /\ p \notin processes'
    /\ runnerFailed' = runnerFailed + 1

\* the pending items of the schedule of the running phase
pendingItems(sch) ==
    SumSeq([i \in DOMAIN sch |->
               IF "specs" \in DOMAIN sch[i] THEN Len(sch[i].specs) ELSE Len(sch[i].testcases)])

\* C14: with bail = 1 and two groups of three pending items each, when the
\* first worker of group 0 exits non-zero the pending items of both groups
\* are cleared and no new worker is started; the workers already running
\* finish and the phase resolves with exit code 1.
C14_ScenarioB ==
    [][/\ FirstWorkerOfGroup0Fails =>
              /\ processesStarted' = processesStarted
              /\ pendingItems(schedule') = 0
              /\ processes' = {} => pc' \notin Awaiting
       /\ (pc = "awaitTestcases" /\ pc' # pc /\ runnerFailed' >= 1) => runExitCode' = 1
       /\ (pc = "awaitSpecs" /\ pc' # pc /\ runnerFailed' >= 1) => specsExitCode' = 1]_vars

\* the sequence part of a runner id
sequencePart(cid) == parseInt(split(cid, "-")[2])

storyRecord(results, group, storyId) ==
    IF group \in DOMAIN results /\ storyId \in DOMAIN results[group]
    THEN results[group][storyId] ELSE emptyStory

\* the outcomes a bucket holds for a criteria
outcomes(bucket, criteriaId) ==
    IF criteriaId \in DOMAIN bucket THEN bucket[criteriaId] ELSE <<>>

\* the record of the story the last evaluation looked at
evaluatedStory == storyRecord(validationResults, evaluation.group, evaluation.storyId)

\* C16: in the validation phase a test:pass for (story, criteria) is
\* forwarded as test:pass exactly when the group's record holds no failure
\* and at least one success for that criteria.
C16_PassIffOnlySuccesses ==
    evaluation.event = "test:pass" =>
        (evaluation.status = "pass" <=>
            /\ outcomes(evaluatedStory.failures, evaluation.criteriaId) = <<>>
            /\ outcomes(evaluatedStory.successes, evaluation.criteriaId) # <<>>)

\* a test:pass was forwarded as it came while the story's record holds a
\* failure for another criteria
C16_Witness ==
    /\ evaluation.event = "test:pass"
    /\ evaluation.status = "pass"
    /\ \E c \in DOMAIN evaluatedStory.failures : evaluatedStory.failures[c] # <<>>

\* C17: in the validation phase, when the record for (story, criteria) holds
\* at least one failure, test:pass is rewritten to test:fail if every recorded
\* failure carries a matcher identity and to test:broken if at least one
\* recorded failure lacks one.
C17_FailOrBroken ==
    LET failures == outcomes(evaluatedStory.failures, evaluation.criteriaId)
    IN (evaluation.event = "test:pass" /\ failures # <<>>) =>
           evaluation.status =
               (IF \A k \in DOMAIN failures : failures[k].matcherName # "undefined"
                THEN "fail" ELSE "broken")

\* a test:pass was rewritten to test:broken for a criteria with a failure of
\* a matcher and a failure without matcher identity
C17_Witness ==
    LET failures == outcomes(evaluatedStory.failures, evaluation.criteriaId)
    IN /\ evaluation.event = "test:pass"
       /\ evaluation.status = "broken"
       /\ \E k \in DOMAIN failures : failures[k].matcherName = "undefined"
       /\ \E k \in DOMAIN failures : failures[k].matcherName # "undefined"

\* C18: in the validation phase a test:pass for a (story, criteria) for which
\* no validate event was ever recorded in that group is forwarded as
\* test:unvalidated.
C18_UnvalidatedWithoutValidateEvent ==
    (/\ evaluation.event = "test:pass"
     /\ ~\E t \in validated : /\ t.group = evaluation.group
                               /\ t.storyId = evaluation.storyId
                               /\ t.criteriaId = evaluation.criteriaId)
        => evaluation.status = "unvalidated"

\* C18 (amended): in the validation phase a test:pass for a (story,
\* criteria) for which the group's record holds neither a list of successes
\* nor a list of failures is forwarded as test:unvalidated.
C18_UnvalidatedWithoutRecord ==
    (/\ evaluation.event = "test:pass"
     /\ evaluation.criteriaId \notin DOMAIN evaluatedStory.failures
     /\ evaluation.criteriaId \notin DOMAIN evaluatedStory.successes)
        => evaluation.status = "unvalidated"

\* a test:pass was rewritten to test:unvalidated for a criteria of a story
\* whose record holds outcomes of another criteria
C18_Witness ==
    /\ evaluation.event = "test:pass"
    /\ evaluation.status = "unvalidated"
    /\ evaluation.storyId \in Stories
    /\ evaluation.criteriaId \notin DOMAIN evaluatedStory.failures
    /\ evaluation.criteriaId \notin DOMAIN evaluatedStory.successes
    /\ DOMAIN evaluatedStory.successes # {}

\* the validate:failure events recorded with a matcher identity
matcherFailures(events) ==
    {t \in events : t.event = "validate:failure" /\ t.matcherName # "undefined"}

\* C19: a validate:failure event naming (story, criteria) with a matcher
\* identity appends one outcome to that criteria's failures, so that a
\* following test:pass for that criteria is forwarded as test:fail (as
\* test:broken if a failure without matcher identity is recorded too) whose
\* err.message contains the original failure message.
C19_ValidateFailureRecorded ==
    [][/\ \A t \in matcherFailures(validated' \ validated) :
              LET before == outcomes(storyRecord(validationResults, t.group, t.storyId).failures,
                                     t.criteriaId)
                  after == outcomes(storyRecord(validationResults', t.group, t.storyId).failures,
                                    t.criteriaId)
              IN /\ Len(after) = Len(before) + 1
                 /\ after[Len(after)].message = t.message
       /\ \A t \in matcherFailures(validated') :
              (/\ evaluation'.event = "test:pass"
               /\ evaluation'.group = t.group
               /\ evaluation'.storyId = t.storyId
               /\ evaluation'.criteriaId = t.criteriaId)
                  => /\ evaluation'.status \in {"fail", "broken"}
                     /\ \E k \in DOMAIN evaluation'.err : evaluation'.err[k] = t.message]_vars

\* C20: evaluating the same (group, story, criteria) record twice with no
\* validation outcome recorded in between returns the same classification
\* both times and leaves the validation record unchanged.
C20_EvaluationIdempotent ==
    [][(finishedTests /\ handled' # handled) =>
          /\ validationResults' = validationResults
          /\ \A key \in DOMAIN classified \cap DOMAIN classified' :
                 classified'[key] = classified[key]]_vars

\* a test:pass has evaluated, with the result test:fail, the criteria the
\* step:end before it had evaluated already
C20_Witness ==
    /\ evaluation.event = "test:pass"
    /\ evaluation.status = "fail"
    /\ evaluation.storyId \in Stories
    /\ <<evaluation.group, evaluation.storyId, evaluation.criteriaId>> \in DOMAIN classified
    /\ classified[<<evaluation.group, evaluation.storyId, evaluation.criteriaId>>] = "fail"

\* C21: the lists of successes and of failures of every (group, story,
\* criteria) only grow during a run: no operation, the merge of the manual
\* results at the phase transition included, removes or replaces an outcome
\* recorded earlier.
C21_OutcomesOnlyGrow ==
    [][\A g \in DOMAIN validationResults :
          \A s \in DOMAIN validationResults[g], c \in Criterias :
              LET before == validationResults[g][s]
                  after == storyRecord(validationResults', g, s)
                  grown(old, new) == /\ Len(old) <= Len(new)
                                     /\ SubSeq(new, 1, Len(old)) = old
              IN /\ grown(outcomes(before.successes, c), outcomes(after.successes, c))
                 /\ grown(outcomes(before.failures, c), outcomes(after.failures, c))]_vars

\* C30: the overall exit code is sticky: once a worker has exited non-zero
\* the recorded exit code stays non-zero for the rest of the run, whatever
\* later workers exit with, and it is 0 as long as every exit so far was 0.
C30_ExitCodeSticky ==
    [][/\ exitCode # 0 => exitCode' # 0
       /\ runnerFailed' > 0 => exitCode' # 0
       /\ runnerFailed' = 0 => exitCode' = 0]_vars

\* three workers have exited, only one of them non-zero, and the recorded
\* exit code is 1
C30_Witness ==
    /\ exitCode = 1
    /\ runnerFailed = 1
    /\ processesStarted - Cardinality(processes) = 3

\* C24: an error thrown by any hook (the global onPrepare / onComplete hook
\* or a service's hook) is caught and does not abort the run: the testcase
\* phase is still dispatched after a failing onPrepare hook and run() still
\* resolves after a failing onComplete hook.
C24_HookErrorsCaught ==
    [][/\ pc' # "rejected"
       /\ (pc = "start" /\ pc' # pc) => processesStarted' > 0
       /\ (pc = "completing" /\ pc' # pc) => runResult' >= 0]_vars

\* C22: messageHandler completes without throwing for every inbound worker
\* message (one without a cid, which is handled under the runner id of its
\* channel, one with an unknown event tag or without its event-specific
\* fields) in every aggregation state reachable before it.
C22_MessageHandlerNeverThrows == ~uncaught

C25_StepEndStatus ==
    [][(handled' # handled /\ reported'.event = "step:end" /\ ~finishedTests) =>
          LET group == getCidGroup(sender')
              pending == IF group \in DOMAIN validationStates
                         THEN validationStates[group].assertionFailures ELSE <<>>
              open == openSteps[sender']
              expected == IF pending # <<>> \/ open[Len(open)] THEN "failed" ELSE "passed"
          IN (group \in DOMAIN stepStates /\ stepStates[group].stepLevel = Len(open))
                => /\ reported'.forwarded = <<handleEvent("step:end", expected, pending, <<>>)>>
                   /\ pending # <<>> => validationStates'[group].assertionFailures = <<>>]_vars

\* C26: after an execution-phase test:start from a worker of group g, the
\* validation state of g holds no pending assertion failure and no story or
\* criteria, the buffered step errors of g are empty, the cached stack of
\* that worker is cleared and unlocked, and the step level of g is 0.
C26_TestStartResets ==
    [][(handled' # handled /\ reported'.event = "test:start" /\ ~finishedTests) =>
          LET group == getCidGroup(sender')
          IN /\ validationStates'[group] = emptyValidationState
             /\ stepErrors'[group] = [failed |-> <<>>, broken |-> <<>>]
             /\ stackStore'[sender'] = noStack
             /\ group \in DOMAIN stepStates' => stepStates'[group].stepLevel = 0]_vars

\* C27: an execution-phase test:fail is forwarded with an aggregate error
\* concatenating every step failure buffered for the group since its last
\* test:start, and is rewritten to test:broken exactly when at least one
\* buffered failure lacks a matcher identity (otherwise it stays test:fail).
C27_TestFailAggregates ==
    [][(handled' # handled /\ reported'.event = "test:fail" /\ ~finishedTests /\ ~uncaught') =>
          LET group == getCidGroup(sender')
              buffered == stepErrors[group].failed \o stepErrors[group].broken
              forwarded == reported'.forwarded
          IN /\ Len(forwarded) = 1
             /\ forwarded[1].event =
                    (IF \E k \in DOMAIN buffered : buffered[k].matcherName = "undefined"
                     THEN "test:broken" ELSE "test:fail")
             /\ Len(forwarded[1].err) = Len(buffered)
             /\ \A k \in DOMAIN buffered :
                    \E j \in DOMAIN forwarded[1].err :
                        forwarded[1].err[j] = buffered[k].message]_vars

\* C28: the events forwarded for one worker's tests and steps (their tags,
\* statuses and attached failures) are the same for every interleaving of
\* another worker's messages with its own, also when both workers belong to
\* the same capability group: they are the events its messages alone lead to.
C28_InterleavingIndependent ==
    sender \in DOMAIN solo => reported.forwarded = solo[sender].forwarded

\* C29: processing a message from a worker of group g leaves the validation
\* records, the validation state, the step state and the buffered step errors
\* of every other group unchanged.
C29_OtherGroupsUntouched ==
    [][handled' # handled =>
          LET g == split(sender', "-")[1]
              of(store, h) == IF h \in DOMAIN store THEN <<store[h]>> ELSE <<>>
          IN \A h \in {toString(c) : c \in 0..(NumCaps - 1)} \ {g} :
                /\ of(validationResults', h) = of(validationResults, h)
                /\ of(validationStates', h) = of(validationStates, h)
                /\ of(stepStates', h) = of(stepStates, h)
                /\ of(stepErrors', h) = of(stepErrors, h)]_vars

\* the runner of the second group has started a test while the first group
\* holds a validation record, a step state and a buffered step failure
C29_Witness ==
    /\ sender = <<"1", "-", "0">>
    /\ reported.event = "test:start"
    /\ <<"1">> \in DOMAIN validationStates
    /\ <<"0">> \in DOMAIN validationResults
    /\ <<"0">> \in DOMAIN stepStates
    /\ <<"0">> \in DOMAIN stepErrors
    /\ stepErrors[<<"0">>].failed # <<>>

\* C31: every worker exit, zero or non-zero, with or without a message of
\* the worker before it, reclaims exactly one slot of the entry the worker was
\* dispatched from and changes no other entry's slot counters (apart from
\* the slots the dispatch loop of the same handler takes for the workers it
\* forks); a non-zero exit increases the failure counter by exactly one and
\* a zero exit leaves it unchanged.
C31_ExitReclaimsOneSlot ==
    [][\A p \in processes \ processes', code \in ExitCodes :
          endHandler(p, code) =>
              LET cid == parseInt(p.cid)
                  forked(c) == Len(dispatched'[c]) - Len(dispatched[c])
                  reclaimed(c) == IF c = cid THEN 1 ELSE 0
              IN /\ \A c \in 0..(NumCaps - 1) :
                        /\ schedule'[c + 1].runningInstances =
                              schedule[c + 1].runningInstances - reclaimed(c) + forked(c)
                        /\ schedule'[c + 1].availableInstances =
                              schedule[c + 1].availableInstances + reclaimed(c) - forked(c)
                 /\ runnerFailed' = runnerFailed + (IF code # 0 THEN 1 ELSE 0)]_vars

\* a worker that had sent a message has exited non-zero, another one that
\* exited zero left the failure counter at 1, and a slot is in use again
C31_Witness ==
    /\ hasStartedAnyProcess
    /\ runnerFailed = 1
    /\ processesStarted - Cardinality(processes) = 2
    /\ \E i \in DOMAIN schedule : schedule[i].runningInstances = 1

\* C32: within a phase every work item is dispatched at most once, the items
\* of one group are dispatched in queue (head-first) order, and absent
\* bail-out and interrupt every work item seeded into the phase has been
\* dispatched exactly once when the phase resolves.
C32_ItemsDispatchedOnceInOrder ==
    \A c \in DOMAIN dispatched :
        LET runners == SelectSeq(dispatched[c], LAMBDA e : e.kind = "runner")
            validators == SelectSeq(dispatched[c], LAMBDA e : e.kind = "validator")
            testcases == config.caps[c + 1].testcases
            specs == config.caps[c + 1].specs
        IN /\ Len(runners) <= Len(testcases)
           /\ \A k \in DOMAIN runners : runners[k].specs = <<testcases[k]>>
           /\ Len(validators) <= Len(specs)
           /\ \A k \in DOMAIN validators : validators[k].specs = <<specs[k]>>
           /\ (sigints = <<>> /\ bailFilter(runnerFailed)) =>
                 /\ pc \notin {"start", "awaitTestcases"} => Len(runners) = Len(testcases)
                 /\ pc \in {"resumeAfterSpecs", "completing", "done"}
                       => Len(validators) = Len(specs)

\* an uninterrupted run without bail-out has resolved its spec phase after
\* two testcases and a spec of one group were dispatched
C32_Witness ==
    /\ pc = "completing"
    /\ sigints = <<>>
    /\ bailFilter(runnerFailed)
    /\ \E c \in DOMAIN dispatched :
           /\ Len(dispatched[c]) = 3
           /\ dispatched[c][2].specs = <<2>>
           /\ dispatched[c][3].kind = "validator"

\* C33: the dispatch loop is work-conserving: absent bail-out and interrupt,
\* whenever it has returned either the total number of running workers
\* equals config.maxInstances or no schedule entry has both a pending work
\* item and an available slot.
C33_WorkConserving ==
    (pc # "start" /\ sigints = <<>> /\ bailFilter(runnerFailed)) =>
        \/ getNumberOfRunningInstances(schedule) = config.maxInstances
        \/ \A i \in DOMAIN schedule :
               LET pending == IF "specs" \in DOMAIN schedule[i]
                              THEN schedule[i].specs ELSE schedule[i].testcases
               IN ~(pending # <<>> /\ schedule[i].availableInstances > 0)

\* the loop returned with work pending in an entry that has a free slot,
\* because config.maxInstances workers are running
C33_Witness ==
    /\ pc = "awaitTestcases"
    /\ sigints = <<>>
    /\ bailFilter(runnerFailed)
    /\ getNumberOfRunningInstances(schedule) = config.maxInstances
    /\ \E i \in DOMAIN schedule :
           /\ schedule[i].testcases # <<>>
           /\ schedule[i].availableInstances > 0
    /\ processesStarted > Cardinality(processes)

\* a configuration file with `capabilities: []`
EmptyConfigs ==
    [maxInstances : 1..MaxGlobal, maxInstancesPerCapability : {MaxPerCap},
     bail : 0..MaxBail, caps : {<<>>}]

AnyCapsInit ==
    /\ config \in Configs \cup EmptyConfigs
    /\ hooks = quietHooks
    /\ sortEngine \in SortEngines
    /\ manualResults = <<>>
    /\ constructed

AnyCapsSpec == AnyCapsInit /\ [][Next]_vars

\* C36: when a phase starts with no pending work item in any schedule entry,
\* the phase resolves immediately with exit code 0 and no worker process is
\* spawned.
C36_EmptyPhaseResolves ==
    [][/\ (/\ pc = "start"
           /\ pc' # "start"
           /\ \A i \in DOMAIN config.caps : config.caps[i].testcases = <<>>)
          => /\ pc' = "resumeAfterTestcases"
             /\ runExitCode' = 0
             /\ processesStarted' = processesStarted
             /\ processes' = processes
       /\ (/\ pc = "resumeAfterTestcases"
           /\ pc' # "resumeAfterTestcases"
           /\ \A i \in DOMAIN config.caps : config.caps[i].specs = <<>>)
          => /\ pc' = "resumeAfterSpecs"
             /\ specsExitCode' = 0
             /\ processesStarted' = processesStarted
             /\ processes' = processes]_vars

\* C37: in every reachable state, including after the phase transition and
\* after interrupt signals, each schedule entry's runningInstances equals
\* the number of workers of that group that were spawned and have not yet
\* exited; it is never negative and availableInstances never exceeds the
\* limit of the capability.
C37_RunningInstancesCountLiveWorkers ==
    \A i \in DOMAIN schedule :
        /\ schedule[i].runningInstances =
              Cardinality({p \in processes : parseInt(p.cid) = schedule[i].cid})
        /\ schedule[i].runningInstances >= 0
        /\ schedule[i].availableInstances <= instanceLimit(config.caps[i])

\* C38: the 'end' summary event is forwarded to the reporters at most once
\* per phase, whatever the order of worker exits and interrupt signals.
C38_EndAtMostOncePerPhase ==
    \A phase \in {"testcases", "specs"} :
        Len(SelectSeq(endEvents, LAMBDA e : e = phase)) <= 1

\* C35: when the lifecycle hook of one service fails, by throwing
\* synchronously or by returning a rejected promise, the same hook of every
\* other registered service is still invoked.
C35_SiblingHooksInvoked ==
    [][/\ (pc = "start" /\ pc' # "start" /\ hooks.onPrepare = "returns")
          => invoked'.onPrepare = [s \in 1..NumServices |-> s]
       /\ (pc = "completing" /\ pc' # "completing")
          => invoked'.onComplete = [s \in 1..NumServices |-> s]]_vars

\* C39: every validator worker dispatched for capability group g receives
\* in its startup message the validation record accumulated for group g, for
\* every group g and not only for group 0.
C39_ValidatorReceivesRecordOfItsGroup ==
    [][\A c \in DOMAIN dispatched :
          \A k \in (Len(dispatched[c]) + 1)..Len(dispatched'[c]) :
              dispatched'[c][k].kind = "validator" =>
                  dispatched'[c][k].validationResults =
                      IF toString(c) \in DOMAIN validationResults'
                      THEN <<validationResults'[toString(c)]>> ELSE <<>>]_vars

\* C40: for a group whose step:start / step:end events are properly nested
\* (every step:end closes an open step), 0 <= stepLevel <= length of
\* levelStatus in every reachable state, and stepLevel is 0 after the last
\* open step has ended: stepLevel starts at 0, every step:start adds one to
\* it, every step:end takes one from it and no other event changes it, so it
\* is the number of steps that started and have not ended.
C40_StepLevelCountsOpenSteps ==
    [][handled' = handled + 1 =>
          LET group == split(sender', "-")[1]
              level(steps) == IF group \in DOMAIN steps THEN steps[group].stepLevel ELSE 0
          IN /\ level(stepStates') =
                   level(stepStates) + (CASE reported'.event = "step:start" -> 1
                                          [] reported'.event = "step:end" -> -1
                                          [] OTHER -> 0)
             /\ \A g \in DOMAIN stepStates' :
                   /\ 0 <= stepStates'[g].stepLevel
                   /\ stepStates'[g].stepLevel <= Len(stepStates'[g].levelStatus)
             /\ \A g \in DOMAIN stepStates' \ {group} :
                   g \in DOMAIN stepStates /\ stepStates'[g] = stepStates[g]]_vars

\* two nested steps have started and both have ended
C40_Witness ==
    /\ reported.event = "step:end"
    /\ <<"0">> \in DOMAIN stepStates
    /\ stepStates[<<"0">>].stepLevel = 0
    /\ Len(stepStates[<<"0">>].levelStatus) = 2
    /\ sender \in DOMAIN openSteps
    /\ openSteps[sender] = <<>>

\* C34: when a step or validation failure of a worker is patched with
\* location info, the stack appended is the most recent runner:currentStack
\* snapshot that worker reported since its last step:start or test:start.
C34_AppendsMostRecentSnapshot ==
    [][LET appended == SelectSeq(reported'.patched, LAMBDA line : line \in Snapshots)
           log == IF sender' \in DOMAIN stackLog THEN stackLog[sender'] ELSE <<>>
           snapshots == SelectSeq(log, LAMBDA e : e.event = "runner:currentStack")
       IN (handled' = handled + 1 /\ appended # <<>>) =>
             /\ snapshots # <<>>
             /\ appended = <<snapshots[Len(snapshots)].stack>>]_vars

\* C34 (amended): when a step or validation failure of a worker is patched
\* with location info, the stack appended is the snapshot retained for that
\* worker since its last step:start or test:start: the most recent
\* runner:currentStack snapshot it reported before its first failed command
\* (snapshots reported after a failed command are ignored), replaced, at a
\* failed command that is a waitUntil or that follows a waitUntil snapshot no
\* successful waitUntil command has cleared, by that waitUntil snapshot.
C34_AppendsRetainedSnapshot ==
    [][LET appended == SelectSeq(reported'.patched, LAMBDA line : line \in Snapshots)
           log == IF sender' \in DOMAIN stackLog THEN stackLog[sender'] ELSE <<>>
           Max(S) == CHOOSE i \in S : \A j \in S : j <= i
           Min(S) == CHOOSE i \in S : \A j \in S : i <= j
           failed == {i \in DOMAIN log : log[i].event = "runner:aftercommand" /\ log[i].err}
           locked == IF failed = {} THEN Len(log) + 1 ELSE Min(failed)
           stored == {i \in 1..(locked - 1) : log[i].event = "runner:currentStack"}
           waiting == {i \in stored : log[i].name = "waitUntil"}
           cleared(j) == \E k \in (Max(waiting) + 1)..(j - 1) :
                             /\ log[k].event = "runner:aftercommand"
                             /\ ~log[k].err
                             /\ log[k].command = "waitUntil"
           waitUntilError(j) == IF waiting = {} \/ cleared(j) THEN "undefined"
                                ELSE log[Max(waiting)].stack
           replacing == {j \in failed : \/ log[j].command = "waitUntil"
                                         \/ waitUntilError(j) # "undefined"}
           retained == IF replacing # {} THEN waitUntilError(Max(replacing))
                       ELSE IF stored # {} THEN log[Max(stored)].stack
                       ELSE "undefined"
       IN (handled' = handled + 1 /\ appended # <<>>) => appended = <<retained>>]_vars

\* a failure was patched with the snapshot reported before a command failed,
\* although the worker has reported another snapshot since
C34_Witness ==
    /\ reported.event \in {"step:failed", "validate:failure"}
    /\ sender \in DOMAIN stackLog
    /\ Len(stackLog[sender]) = 3
    /\ stackLog[sender][2].event = "runner:aftercommand"
    /\ stackLog[sender][2].err
    /\ stackLog[sender][3].event = "runner:currentStack"
    /\ stackLog[sender][1].event = "runner:currentStack"
    /\ stackLog[sender][1].name = "click"
    /\ stackLog[sender][3].stack # stackLog[sender][1].stack
    /\ reported.patched = <<"at expect (steps.js:3)", stackLog[sender][1].stack>>

====
